---- MODULE Spec2Model ----
(***************************************************************************)
(* Trigger subscription layer of the Composio JS SDK                       *)
(* (js/src/sdk/models/triggers.ts): Triggers.subscribe, the filter         *)
(* predicate shouldSendTrigger it closes over, the listener it installs,   *)
(* and Triggers.unsubscribe.  The per-identity listener slot behind        *)
(* PusherUtils.triggerSubscribe / triggerUnsubscribe is modelled from the  *)
(* specification's Subscription Registry (section 4.2).                    *)
(***************************************************************************)
EXTENDS Naturals, Sequences, FiniteSets, TLC

VARIABLES
    calls,          \* the subscribe/unsubscribe calls made so far, in invocation order
    hist,           \* indices of the settled calls, in the order they settled
    registry,       \* client identity -> the listener bound to its channel, or NoListener
    lastDispatch    \* what the event just delivered on the channel did; NoDispatch
                    \* when the last step was not a delivery

vars == <<calls, hist, registry, lastDispatch>>

----------------------------------------------------------------------------
(* Bounds of the exploration.                                              *)

MaxCalls == 3
MaxConstrained == 2
MaxDeviations == 2

----------------------------------------------------------------------------
(* JavaScript values: undefined, strings (sequences of characters) and     *)
(* objects (property name -> value; a missing key reads as undefined).     *)

Undefined == [type |-> "undefined"]

Str(s) == [type |-> "string", chars |-> s]

Obj(p) == [type |-> "object", props |-> p]

NoProps == [k \in {} |-> Undefined]

IsUndefined(v) == v.type = "undefined"

\* obj.key: the property, or undefined when the object has no such key.
Get(obj, key) == IF key \in DOMAIN obj.props THEN obj.props[key] ELSE Undefined

\* String.prototype.toLowerCase on one character of the model's alphabet.
LowerChar(c) ==
    CASE c = "G" -> "g"
      [] c = "H" -> "h"
      [] c = "L" -> "l"
      [] OTHER -> c

\* String.prototype.toLowerCase.
ToLowerCase(s) == Str([i \in 1..Len(s.chars) |-> LowerChar(s.chars[i])])

\* JavaScript truthiness of an optional string: undefined and "" are falsy.
Truthy(v) == ~IsUndefined(v) /\ ~(v.type = "string" /\ v.chars = <<>>)

----------------------------------------------------------------------------
(* The filter predicate, src lines 208-231.                                *)

FilterKeys ==
    <<"appName", "triggerId", "connectionId", "triggerName", "entityId", "integrationId">>

\* The property path of the event that each filter field is compared against.
AttrPath(k) ==
    CASE k = "appName"       -> <<"appName">>
      [] k = "triggerId"     -> <<"metadata", "id">>
      [] k = "connectionId"  -> <<"metadata", "connectionId">>
      [] k = "triggerName"   -> <<"metadata", "triggerName">>
      [] k = "entityId"      -> <<"metadata", "connection", "clientUniqueUserId">>
      [] k = "integrationId" -> <<"metadata", "connection", "integrationId">>

TypeError == [type |-> "TypeError"]

\* data.p1.p2...pn : reading a property of undefined raises a TypeError.
RECURSIVE ReadPath(_, _)
ReadPath(v, path) ==
    IF path = <<>> THEN v
    ELSE IF v.type # "object" THEN TypeError
    ELSE ReadPath(Get(v, Head(path)), Tail(path))

\* One conjunct of the predicate:
\*   !filters.k || data.<path>.toLowerCase() === filters.k.toLowerCase()
\* "true", "false", or "throw" (a TypeError raised while reading the event).
FieldTermEager(filters, k, data) ==
    LET attr == ReadPath(data, AttrPath(k))
    IN  IF attr.type # "string" THEN "throw"
        ELSE IF ~Truthy(Get(filters, k)) THEN "true"
        ELSE IF ToLowerCase(attr) = ToLowerCase(Get(filters, k)) THEN "true"
        ELSE "false"

FieldTerm(filters, k, data) ==
    IF ~Truthy(Get(filters, k)) THEN "true"
    ELSE LET attr == ReadPath(data, AttrPath(k))
         IN  IF attr.type # "string" THEN "throw"
             ELSE IF ToLowerCase(attr) = ToLowerCase(Get(filters, k)) THEN "true"
             ELSE "false"

\* The && chain, left to right, stopping at the first conjunct that is not true.
RECURSIVE AndChain(_, _, _)
AndChain(filters, keys, data) ==
    IF keys = <<>> THEN "true"
    ELSE LET t == FieldTerm(filters, Head(keys), data)
         IN  IF t = "true" THEN AndChain(filters, Tail(keys), data) ELSE t

ShouldSendTrigger(filters, data) ==
    IF DOMAIN filters.props = {} THEN "true"
    ELSE AndChain(filters, FilterKeys, data)

----------------------------------------------------------------------------
(* The listener subscribe hands to PusherUtils.triggerSubscribe,           *)
(* src lines 234-238, and the slot that holds it.                          *)

NoFn == "undefined"
NoListener == [fn |-> NoFn, filters |-> Undefined]

Listener(fn, filters) == [fn |-> fn, filters |-> filters]

NoOutcome == [invoked |-> <<>>, predicate |-> "none", cbThrew |-> FALSE, raised |-> "none"]

\* Running the listener on one event: the callbacks invoked, what the predicate
\* gave, whether the callback raised, and what left the listener as an exception.
RunListener(l, data, cbThrows) ==
    LET p == ShouldSendTrigger(l.filters, data)
    IN  CASE p = "throw" ->
               [invoked |-> <<>>, predicate |-> p, cbThrew |-> FALSE, raised |-> "TypeError"]
          [] p = "true" ->
               [invoked |-> <<l.fn>>, predicate |-> p, cbThrew |-> cbThrows,
                raised |-> IF cbThrows THEN "CallbackError" ELSE "none"]
          [] OTHER ->
               [invoked |-> <<>>, predicate |-> p, cbThrew |-> FALSE, raised |-> "none"]

ClientId == "client_1"
ClientIds == {ClientId}

\* PusherUtils.triggerSubscribe: binds the listener to the identity's channel,
\* superseding the one bound before.
TriggerSubscribe(reg, clientId, l) == [reg EXCEPT ![clientId] = l]

\* PusherUtils.triggerUnsubscribe: detaches the identity's listener, if any.
TriggerUnsubscribe(reg, clientId) == [reg EXCEPT ![clientId] = NoListener]

\* The transport delivering one event on the identity's channel.
Dispatch(reg, clientId, data, cbThrows) ==
    IF reg[clientId] = NoListener THEN NoOutcome
    ELSE RunListener(reg[clientId], data, cbThrows)

----------------------------------------------------------------------------
(* Inputs.                                                                 *)

GH == Str(<<"g", "h">>)
Strings == {Str(<<>>), GH, Str(<<"G", "h">>), Str(<<"g", "l">>)}

\* Every function from a subset of keys of at most n elements into vals.
PartialFns(keys, vals, n) ==
    UNION { [S -> vals] : S \in { T \in SUBSET keys : Cardinality(T) <= n } }

Range(f) == { f[i] : i \in DOMAIN f }

\* The filters a caller can pass: at most MaxConstrained keys present, each
\* holding a string or undefined.
Filters == { Obj(p) : p \in PartialFns(Range(FilterKeys), Strings \cup {Undefined}, MaxConstrained) }

\* The leaves of an event, and the event built from a value for each; a leaf
\* or object given as Undefined is left out of the event.
Leaves == Range(FilterKeys)
Slots == Leaves \cup {"connection", "metadata"}

Without(f) == [k \in { j \in DOMAIN f : ~IsUndefined(f[j]) } |-> f[k]]

MkEvent(a) ==
    LET connection == IF "connection" \in DOMAIN a THEN Undefined
                      ELSE Obj(Without([k \in {"clientUniqueUserId", "integrationId"} |->
                             IF k = "clientUniqueUserId" THEN a["entityId"] ELSE a["integrationId"]]))
        metadata == IF "metadata" \in DOMAIN a THEN Undefined
                    ELSE Obj(Without([k \in {"id", "connectionId", "triggerName", "connection"} |->
                           CASE k = "id" -> a["triggerId"]
                             [] k = "connectionId" -> a["connectionId"]
                             [] k = "triggerName" -> a["triggerName"]
                             [] OTHER -> connection]))
    IN  Obj(Without([k \in {"appName", "metadata"} |->
              IF k = "appName" THEN a["appName"] ELSE metadata]))

\* Events that differ from the fully populated base event (every leaf "gh") in
\* at most MaxDeviations slots: a leaf holding another string or missing, the
\* connection object missing, the metadata object missing.
Deviations ==
    { d \in PartialFns(Slots, (Strings \ {GH}) \cup {Undefined}, MaxDeviations) :
        \A k \in DOMAIN d \ Leaves : IsUndefined(d[k]) }

Events == { MkEvent([k \in Leaves \cup (DOMAIN d \ Leaves) |->
                       IF k \in DOMAIN d THEN d[k] ELSE GH]) : d \in Deviations }

BaseEvent == MkEvent([k \in Leaves |-> GH])

\* The subscriptions and events of the call-level exploration.
F1 == Obj("appName" :> Str(<<"G", "h">>))
F2 == Obj("entityId" :> Str(<<"g", "l">>))

SubscribeArgs == { <<"cb1", F1>>, <<"cb2", F2>>, <<NoFn, F1>> }

SubEvents ==
    { BaseEvent,
      MkEvent([k \in Leaves |-> IF k = "entityId" THEN Str(<<"G", "L">>)
                                ELSE IF k = "appName" THEN Str(<<"g", "l">>) ELSE GH]),
      MkEvent([k \in Leaves \cup {"connection"} |-> GH]) }

----------------------------------------------------------------------------
(* Triggers.subscribe and Triggers.unsubscribe, one step per stretch of    *)
(* code between two suspension points.                                     *)

NoDispatch == [data |-> Undefined, outcome |-> NoOutcome]

Call(op, fn, filters, pc, error, did) ==
    [op |-> op, fn |-> fn, filters |-> filters, pc |-> pc, error |-> error,
     env |-> "none", did |-> did]

Settled(c) == c.pc \in {"resolved", "rejected"}

\* subscribe up to its first await, src lines 190-201.
SubscribeEnterUnchecked(fn, filters) ==
    Call("subscribe", fn, filters, "getClientId", "none", {"getClientId"})

SubscribeEnter(fn, filters) ==
    IF fn = NoFn
    THEN Call("subscribe", fn, filters, "rejected", "FunctionRequired", {})
    ELSE Call("subscribe", fn, filters, "getClientId", "none", {"getClientId"})

\* unsubscribe up to its await, src lines 241-242.
UnsubscribeEnter ==
    Call("unsubscribe", NoFn, Undefined, "getClientId", "none", {"getClientId"})

Settle(i) == hist' = Append(hist, i)

InvokeSubscribe(fn, filters) ==
    /\ Len(calls) < MaxCalls
    /\ calls' = Append(calls, SubscribeEnter(fn, filters))
    /\ hist' = IF Settled(calls'[Len(calls')]) THEN Append(hist, Len(calls')) ELSE hist
    /\ UNCHANGED registry
    /\ lastDispatch' = NoDispatch

InvokeUnsubscribe ==
    /\ Len(calls) < MaxCalls
    /\ calls' = Append(calls, UnsubscribeEnter)
    /\ UNCHANGED <<hist, registry>>
    /\ lastDispatch' = NoDispatch

\* backendClient.getClientId() rejects: the await rethrows and subscribe
\* rejects, src line 201.
SubscribeGetClientIdRejects(i) ==
    /\ i \in DOMAIN calls
    /\ calls[i].op = "subscribe"
    /\ calls[i].pc = "getClientId"
    /\ calls' = [calls EXCEPT ![i].pc = "rejected", ![i].error = "ClientIdUnavailable",
                              ![i].env = "clientIdFailed"]
    /\ Settle(i)
    /\ UNCHANGED registry
    /\ lastDispatch' = NoDispatch

\* backendClient.getClientId() rejects: the await rethrows and unsubscribe
\* rejects, src line 242.
UnsubscribeGetClientIdRejects(i) ==
    /\ i \in DOMAIN calls
    /\ calls[i].op = "unsubscribe"
    /\ calls[i].pc = "getClientId"
    /\ calls' = [calls EXCEPT ![i].pc = "rejected", ![i].error = "ClientIdUnavailable",
                              ![i].env = "clientIdFailed"]
    /\ Settle(i)
    /\ UNCHANGED registry
    /\ lastDispatch' = NoDispatch

\* subscribe from the resolution of getClientId to the await of
\* getPusherClient, src lines 201-206.
SubscribeGotClientId(i) ==
    /\ i \in DOMAIN calls
    /\ calls[i].op = "subscribe"
    /\ calls[i].pc = "getClientId"
    /\ calls' = [calls EXCEPT ![i].pc = "getPusherClient",
                              ![i].did = @ \cup {"getPusherClient"}]
    /\ UNCHANGED <<hist, registry>>
    /\ lastDispatch' = NoDispatch

GetPusherClientRejectsSwallowed(i) ==
    /\ i \in DOMAIN calls
    /\ calls[i].op = "subscribe"
    /\ calls[i].pc = "getPusherClient"
    /\ calls' = [calls EXCEPT ![i].pc = "resolved", ![i].env = "transportFailed",
                              ![i].did = @ \cup {"triggerSubscribe"}]
    /\ registry' = TriggerSubscribe(registry, ClientId, Listener(calls[i].fn, calls[i].filters))
    /\ Settle(i)
    /\ lastDispatch' = NoDispatch

\* PusherUtils.getPusherClient rejects: subscribe rejects at src line 203.
GetPusherClientRejects(i) ==
    /\ i \in DOMAIN calls
    /\ calls[i].op = "subscribe"
    /\ calls[i].pc = "getPusherClient"
    /\ calls' = [calls EXCEPT ![i].pc = "rejected", ![i].error = "TransportUnavailable",
                              ![i].env = "transportFailed"]
    /\ Settle(i)
    /\ UNCHANGED registry
    /\ lastDispatch' = NoDispatch

SubscribeGotPusherClientKeepFirst(i) ==
    /\ i \in DOMAIN calls
    /\ calls[i].op = "subscribe"
    /\ calls[i].pc = "getPusherClient"
    /\ calls' = [calls EXCEPT ![i].pc = "resolved", ![i].did = @ \cup {"triggerSubscribe"}]
    /\ registry' = IF registry[ClientId] = NoListener
                   THEN TriggerSubscribe(registry, ClientId,
                                         Listener(calls[i].fn, calls[i].filters))
                   ELSE registry
    /\ Settle(i)
    /\ lastDispatch' = NoDispatch

\* subscribe from the resolution of getPusherClient to its end: builds the
\* predicate and the listener and binds it, src lines 208-239.
SubscribeGotPusherClient(i) ==
    /\ i \in DOMAIN calls
    /\ calls[i].op = "subscribe"
    /\ calls[i].pc = "getPusherClient"
    /\ calls' = [calls EXCEPT ![i].pc = "resolved", ![i].did = @ \cup {"triggerSubscribe"}]
    /\ registry' = TriggerSubscribe(registry, ClientId, Listener(calls[i].fn, calls[i].filters))
    /\ Settle(i)
    /\ lastDispatch' = NoDispatch

UnsubscribeGotClientIdStrict(i) ==
    /\ i \in DOMAIN calls
    /\ calls[i].op = "unsubscribe"
    /\ calls[i].pc = "getClientId"
    /\ IF registry[ClientId] = NoListener
       THEN /\ calls' = [calls EXCEPT ![i].pc = "rejected", ![i].error = "NotSubscribed"]
            /\ registry' = registry
       ELSE /\ calls' = [calls EXCEPT ![i].pc = "resolved",
                                      ![i].did = @ \cup {"triggerUnsubscribe"}]
            /\ registry' = TriggerUnsubscribe(registry, ClientId)
    /\ Settle(i)
    /\ lastDispatch' = NoDispatch

UnsubscribeGotClientIdNoop(i) ==
    /\ i \in DOMAIN calls
    /\ calls[i].op = "unsubscribe"
    /\ calls[i].pc = "getClientId"
    /\ calls' = [calls EXCEPT ![i].pc = "resolved"]
    /\ Settle(i)
    /\ UNCHANGED registry
    /\ lastDispatch' = NoDispatch

\* unsubscribe from the resolution of getClientId to its end, src lines 242-244.
UnsubscribeGotClientId(i) ==
    /\ i \in DOMAIN calls
    /\ calls[i].op = "unsubscribe"
    /\ calls[i].pc = "getClientId"
    /\ calls' = [calls EXCEPT ![i].pc = "resolved", ![i].did = @ \cup {"triggerUnsubscribe"}]
    /\ registry' = TriggerUnsubscribe(registry, ClientId)
    /\ Settle(i)
    /\ lastDispatch' = NoDispatch

\* The transport delivers an event on the identity's channel.
Deliver(data, cbThrows) ==
    /\ lastDispatch' = [data |-> data,
                        outcome |-> Dispatch(registry, ClientId, data, cbThrows)]
    /\ UNCHANGED <<calls, hist, registry>>

Init ==
    /\ calls = <<>>
    /\ hist = <<>>
    /\ registry = [c \in ClientIds |-> NoListener]
    /\ lastDispatch = NoDispatch

Next ==
    \/ \E a \in SubscribeArgs : InvokeSubscribe(a[1], a[2])
    \/ InvokeUnsubscribe
    \/ \E i \in 1..MaxCalls : SubscribeGetClientIdRejects(i)
    \/ \E i \in 1..MaxCalls : UnsubscribeGetClientIdRejects(i)
    \/ \E i \in 1..MaxCalls : SubscribeGotClientId(i)
    \/ \E i \in 1..MaxCalls : GetPusherClientRejects(i)
    \/ \E i \in 1..MaxCalls : SubscribeGotPusherClient(i)
    \/ \E i \in 1..MaxCalls : UnsubscribeGotClientId(i)
    \/ \E data \in SubEvents, cbThrows \in BOOLEAN : Deliver(data, cbThrows)

Spec == Init /\ [][Next]_vars

\* The predicate and the listener on their own: one subscription, made with
\* any filter, is in place, and any event is delivered to it.
InitPred ==
    /\ \E f \in Filters :
         /\ calls = << [SubscribeEnter("cb1", f) EXCEPT
                           !.pc = "resolved",
                           !.did = {"getClientId", "getPusherClient", "triggerSubscribe"}] >>
         /\ registry = [c \in ClientIds |-> Listener("cb1", f)]
    /\ hist = <<1>>
    /\ lastDispatch = NoDispatch

NextPred ==
    /\ lastDispatch = NoDispatch
    /\ \E data \in Events : Deliver(data, FALSE)

SpecPred == InitPred /\ [][NextPred]_vars

----------------------------------------------------------------------------
(* Vocabulary of the properties.                                           *)

\* A filter field is constrained when the filter holds a string for it.
Constrained(f, k) == k \in DOMAIN f.props /\ f.props[k].type = "string"

ZeroConstrained(f) == \A k \in Leaves : ~Constrained(f, k)

\* The event attribute a filter field is compared against is there.
HasAttr(e, k) == ReadPath(e, AttrPath(k)).type = "string"

FullyPopulated(e) == \A k \in Leaves : HasAttr(e, k)

\* Two strings equal up to the case of their letters.
EqIgnoreCase(a, b) ==
    /\ Len(a.chars) = Len(b.chars)
    /\ \A n \in 1..Len(a.chars) : LowerChar(a.chars[n]) = LowerChar(b.chars[n])

\* The event carries, for every constrained field, an attribute equal to it
\* up to case.
Matches(f, e) ==
    \A k \in Leaves :
        Constrained(f, k) => HasAttr(e, k) /\ EqIgnoreCase(f.props[k], ReadPath(e, AttrPath(k)))

Delivered == lastDispatch # NoDispatch

Outcome == lastDispatch.outcome

\* The calls settled before the delivery, in the order they settled; the one
\* among them that last bound or cleared the identity's listener (0: none did).
SettledBefore == hist

ResolvedAt(h) == { n \in 1..Len(h) : calls[h[n]].pc = "resolved" }

LastResolved(h) ==
    IF ResolvedAt(h) = {} THEN 0
    ELSE h[CHOOSE n \in ResolvedAt(h) : \A m \in ResolvedAt(h) : m <= n]

AllSettled == \A i \in DOMAIN calls : Settled(calls[i])

----------------------------------------------------------------------------
(* The claims.                                                             *)

\* C1: once a second subscribe has completed after a first one, an event
\* delivered on the channel goes through the latest subscription only: no
\* callback but its own is invoked, its callback is invoked only for an event
\* matching its filter, and an event matching its filter invokes it exactly once.
C1_SecondSubscribeSupersedes ==
    LET last == LastResolved(SettledBefore)
    IN  (/\ Delivered
         /\ Cardinality(ResolvedAt(SettledBefore)) >= 2
         /\ last # 0
         /\ calls[last].op = "subscribe")
        => /\ Outcome.invoked \in {<<>>, <<calls[last].fn>>}
           /\ (Outcome.invoked = <<calls[last].fn>>) <=> Matches(calls[last].filters, lastDispatch.data)

\* Scenario C: subscribe(cb1, F1), then subscribe(cb2, F2), then an event that
\* matches F2 and not F1: cb2 alone was invoked, once.
C1_Witness ==
    /\ Len(hist) = 2 /\ hist = <<1, 2>>
    /\ calls[1].pc = "resolved" /\ calls[1].fn = "cb1" /\ calls[1].filters = F1
    /\ calls[2].pc = "resolved" /\ calls[2].fn = "cb2" /\ calls[2].filters = F2
    /\ Delivered
    /\ Matches(F2, lastDispatch.data) /\ ~Matches(F1, lastDispatch.data)
    /\ Outcome.invoked = <<"cb2">>

\* C2: an event delivered after an unsubscribe has completed, and before any
\* later subscribe completes, invokes no callback.
C2_NoDispatchAfterUnsubscribe ==
    LET last == LastResolved(SettledBefore)
    IN  (Delivered /\ last # 0 /\ calls[last].op = "unsubscribe")
        => Outcome.invoked = <<>>

\* A subscription was in place, unsubscribe completed, and an event matching the
\* old filter was then delivered.
C2_Witness ==
    /\ Len(hist) = 2
    /\ calls[hist[1]].op = "subscribe" /\ calls[hist[1]].pc = "resolved"
    /\ calls[hist[2]].op = "unsubscribe" /\ calls[hist[2]].pc = "resolved"
    /\ Delivered
    /\ Matches(calls[hist[1]].filters, lastDispatch.data)
    /\ Outcome.invoked = <<>>

\* C3: for a filter with at least one constrained field and a fully populated
\* event, the predicate is true exactly when every constrained field equals
\* the event's attribute up to case, and the callback is invoked exactly when
\* the predicate is true.
C3_PredicateIffFieldsMatch ==
    (/\ Delivered
     /\ ~ZeroConstrained(calls[1].filters)
     /\ FullyPopulated(lastDispatch.data))
    => /\ (Outcome.predicate = "true") <=> Matches(calls[1].filters, lastDispatch.data)
       /\ (Outcome.invoked = <<calls[1].fn>>) <=> (Outcome.predicate = "true")

\* C4: a filter with no constrained field passes every event, also one
\* without metadata.connection, and raises nothing.
C4_UnconstrainedFilterPassesAll ==
    (Delivered /\ ZeroConstrained(calls[1].filters))
    => /\ Outcome.predicate = "true"
       /\ Outcome.raised = "none"
       /\ Outcome.invoked = <<calls[1].fn>>

\* A filter that names a field without constraining it met an event with no
\* connection object.
C4_Witness ==
    /\ Delivered
    /\ ZeroConstrained(calls[1].filters)
    /\ DOMAIN calls[1].filters.props # {}
    /\ ReadPath(lastDispatch.data, <<"metadata", "connection">>).type = "undefined"
    /\ Outcome.invoked = <<"cb1">>

\* C5: when the event lacks an attribute that a set (non-empty) filter field
\* is compared against, the predicate raises nothing and is false, and the
\* callback is not invoked.
C5_MissingAttributeFailsClosed ==
    (/\ Delivered
     /\ \E k \in Leaves : Truthy(Get(calls[1].filters, k)) /\ ~HasAttr(lastDispatch.data, k))
    => /\ Outcome.raised = "none"
       /\ Outcome.predicate = "false"
       /\ Outcome.invoked = <<>>

\* C6: an error raised by the subscriber's callback does not leave the
\* listener, and the subscription stays registered.
C6_CallbackErrorIsolated ==
    (Delivered /\ Outcome.cbThrew)
    => /\ Outcome.raised = "none"
       /\ registry[ClientId] # NoListener

\* C7: a subscribe whose transport initialisation fails rejects with that
\* failure, binds no listener and leaves the registry as it was.
C7_TransportFailureRejects ==
    [][\A i \in DOMAIN calls :
          (calls[i].env = "none" /\ calls'[i].env = "transportFailed")
          => /\ calls'[i].pc = "rejected"
             /\ calls'[i].error = "TransportUnavailable"
             /\ "triggerSubscribe" \notin calls'[i].did
             /\ registry' = registry]_vars

\* A subscription was in place, a second subscribe failed on the transport,
\* and an event delivered afterwards still reached the first callback.
C7_Witness ==
    /\ Len(hist) = 2
    /\ calls[hist[1]].op = "subscribe" /\ calls[hist[1]].pc = "resolved"
    /\ calls[hist[2]].op = "subscribe" /\ calls[hist[2]].env = "transportFailed"
    /\ calls[hist[2]].fn # calls[hist[1]].fn
    /\ Delivered
    /\ Outcome.invoked = <<calls[hist[1]].fn>>

\* C8: a subscribe without a callback rejects at once: it resolves no
\* identity, initialises no transport, binds nothing, and the registry is as
\* it was.
C8_MissingCallbackRejectsFirst ==
    [][/\ \A i \in DOMAIN calls' \ DOMAIN calls :
            (calls'[i].op = "subscribe" /\ calls'[i].fn = NoFn)
            => /\ calls'[i].pc = "rejected"
               /\ calls'[i].error = "FunctionRequired"
               /\ calls'[i].did = {}
               /\ registry' = registry
       /\ \A i \in DOMAIN calls :
            (calls[i].op = "subscribe" /\ calls[i].fn = NoFn) => calls'[i] = calls[i]]_vars

\* A subscription was in place, a subscribe without a callback was rejected,
\* and an event delivered afterwards still reached the callback in place.
C8_Witness ==
    /\ Len(hist) = 2
    /\ calls[hist[1]].op = "subscribe" /\ calls[hist[1]].pc = "resolved"
    /\ calls[hist[2]].op = "subscribe" /\ calls[hist[2]].fn = NoFn
    /\ calls[hist[2]].pc = "rejected"
    /\ Delivered
    /\ Outcome.invoked = <<calls[hist[1]].fn>>

\* C9: an unsubscribe that finds no listener bound (after an earlier
\* unsubscribe, or with none ever bound) completes without error and leaves
\* the registry as it was.
C9_UnsubscribeIdempotent ==
    [][\A i \in DOMAIN calls :
          (/\ calls[i].op = "unsubscribe"
           /\ calls[i].pc = "getClientId"
           /\ calls'[i].pc # "getClientId"
           /\ calls'[i].env = "none"
           /\ registry[ClientId] = NoListener)
          => /\ calls'[i].pc = "resolved"
             /\ calls'[i].error = "none"
             /\ registry' = registry
             /\ registry'[ClientId] = NoListener]_vars

\* subscribe, then unsubscribe twice in a row, all completed, then an event
\* matching the old filter: nothing invoked.
C9_Witness ==
    /\ Len(hist) = 3
    /\ calls[hist[1]].op = "subscribe" /\ calls[hist[1]].pc = "resolved"
    /\ calls[hist[2]].op = "unsubscribe" /\ calls[hist[2]].pc = "resolved"
    /\ calls[hist[3]].op = "unsubscribe" /\ calls[hist[3]].pc = "resolved"
    /\ registry[ClientId] = NoListener
    /\ Delivered
    /\ Matches(calls[hist[1]].filters, lastDispatch.data)
    /\ Outcome.invoked = <<>>

\* C10: subscribe invoked, then unsubscribe invoked, no subscribe invoked
\* after it: once every call has completed, no listener is registered.
C10_UnsubscribeAfterSubscribeWins ==
    (/\ AllSettled
     /\ \E i, j \in DOMAIN calls :
          /\ i < j
          /\ calls[i].op = "subscribe" /\ calls[i].pc = "resolved"
          /\ calls[j].op = "unsubscribe" /\ calls[j].pc = "resolved"
          /\ \A k \in DOMAIN calls : k > j => calls[k].op # "subscribe")
    => registry[ClientId] = NoListener

====
